---- MODULE Spec2Model ----
(***************************************************************************)
(* Model of the SSE producer of main.py (stream_events.event_generator)    *)
(* and of the SSE consumer of client.py (FastAPISSEClient.connect).        *)
(*                                                                         *)
(* Text is modelled as a sequence of characters.  The characters of the    *)
(* fixed prefixes "data: " and "event: " and the newline are single        *)
(* characters; a kind name, a JSON key or a JSON number is one element.    *)
(***************************************************************************)
EXTENDS Integers, Sequences, FiniteSets, TLC

VARIABLES
    \* ---- producer: one connection to an SSE endpoint of main.py
    endpoint,       \* the route requested: stream, metrics, channel, deepwiki
    gpc,            \* position of the generator: start, poll, sleep, done, ...
    counter,        \* the generator's local counter
    disconnected,   \* what request.is_disconnected() returns
    polls,          \* how many times the disconnect probe was polled
    sent,           \* frames yielded so far: [kind, n] (n = counter at the yield)
    lastFrame,      \* wire text of the last frame yielded
    gend,           \* how the generator ended: none, disconnect, error, cancelled
    sentAtGone,     \* Len(sent) when the client went away, -1 before
    \* ---- consumer: one FastAPISSEClient.connect call (client.py)
    cpc,            \* position of connect: idle, called, get, loop, handling,
                    \* leaving_* (before finally), done, raised
    running,        \* self.running
    hasCallback,    \* whether connect was given a callback
    event_type,     \* the local variable event_type of connect
    received,       \* lines iter_lines has handed to the loop, in order
    dispatched,     \* events handed to the handler: [event, data, at, out]
    cend,           \* how connect ended
    attempts,       \* how many times requests.get was called
    stopAt,         \* Len(received) when stop() ran, -1 before
    \* ---- a second connect call on the same FastAPISSEClient
    cpc2, received2, dispatched2, cend2,
    \* ---- two /stream connections open at once (main.py stream_events)
    epc, ecounter, esent, eend, egen,
    \* ---- MCPServer (mcp_server.py)
    execution_history, server_stats, lastCall, lastResult,
    calls,          \* how many execute_tool calls were made
    in_flight,      \* the calls that have not returned: [i, at], i the index
                    \* of the call's history record, at its position
    others,         \* how many other operations were made
    streamCall,     \* the arguments of the last execute_tool_stream run
    streamed,       \* the events that run yielded, in order
    spc,            \* position of that run: idle, open, done, closed
    sessions,       \* self.sessions: session id -> session record
    sessionReply,   \* what the last create_session / get_session_info returned
    creating,       \* the create_session calls between their test and store
    \* ---- POST /api/broadcast (main.py broadcast_message)
    posts,          \* how many requests were served
    request_body,   \* the JSON object of the last request
    reply,          \* the dict returned for it
    \* ---- MCPClient (main.py)
    mcp_session_id, \* self.session_id of the MCPClient
    invocations,    \* the invocations made: call_method or initialize_session
    ipc,            \* where each invocation is: init, method, done
    wire,           \* the requests posted, in order: [by, request]
    responses,      \* what the service answered, invocation by invocation
    returned        \* what each invocation returned, or that it raised

pvars == <<endpoint, gpc, counter, disconnected, polls, sent, lastFrame, gend,
           sentAtGone>>
cvars == <<cpc, running, hasCallback, event_type, received, dispatched, cend,
           attempts, stopAt>>
tvars == <<cpc2, received2, dispatched2, cend2>>
evars == <<epc, ecounter, esent, eend, egen>>
svars == <<execution_history, server_stats, lastCall, lastResult, calls, in_flight,
           others, streamCall, streamed, spc, sessions, sessionReply, creating>>
bvars == <<posts, request_body, reply>>
mvars == <<mcp_session_id, invocations, ipc, wire, responses, returned>>
vars == <<pvars, cvars, tvars, evars, svars, bvars, mvars>>

\* What an action of one part leaves alone.
notProducer == <<cvars, tvars, evars, svars, bvars, mvars>>
notConsumer == <<pvars, tvars, evars, svars, bvars, mvars>>
notStreams == <<pvars, cvars, tvars, svars, bvars, mvars>>
notServer == <<pvars, cvars, tvars, evars, bvars, mvars>>
notBroadcast == <<pvars, cvars, tvars, evars, svars, mvars>>
notClient == <<pvars, cvars, tvars, evars, svars, bvars>>

\* ------------------------------------------------------------------ bounds

\* Ticks of event_generator explored on one connection.
MaxTicks == 40
\* Lines one connect call reads.
MaxLines == 4

\* The /stream connections open at once.
Connections == {1, 2}

\* ------------------------------------------------------------------ text

NL == "\n"
DataPrefix == <<"d", "a", "t", "a", ":", " ">>
EventPrefix == <<"e", "v", "e", "n", "t", ":", " ">>

\* str.startswith
StartsWith(line, prefix) ==
    /\ Len(line) >= Len(prefix)
    /\ SubSeq(line, 1, Len(prefix)) = prefix

\* line[k:]
DropFirst(line, k) == SubSeq(line, k + 1, Len(line))

\* json.dumps of a dict whose keys are the sequence `keys' and whose values
\* are all the text `v' (a number, or an object): {"k1": v, "k2": v}
RECURSIVE DumpsItems(_, _)
DumpsItems(keys, v) ==
    IF keys = <<>> THEN <<>>
    ELSE <<Head(keys), ":">> \o v
         \o (IF Len(keys) > 1 THEN <<",">> ELSE <<>>)
         \o DumpsItems(Tail(keys), v)

Dumps(keys, v) == <<"{">> \o DumpsItems(keys, v) \o <<"}">>

JsonKeys == {"\"message\"", "\"metrics\"", "\"cpu_usage\"", "\"level\"",
             "\"sensor_data\"", "\"error\"", "\"data\"", "\"type\""}
JsonNumbers == {"1", "2"}
JsonStrings == JsonKeys \union {"\"s\"", "\"info\""}
EmptyObject == <<"{", "}">>
EmptyArray == <<"[", "]">>

\* What json.loads gives up on: JSONDecodeError.
NotJson == [ok |-> FALSE, n |-> 0, type |-> "none",
            keys |-> {}, dicts |-> {}, lists |-> {}]

\* A parsed value that is not an object: n tokens read, of python type t.
Parsed(n, t) == [ok |-> TRUE, n |-> n, type |-> t,
                 keys |-> {}, dicts |-> {}, lists |-> {}]

\* The JSON decoder of json.loads, over tokens. ParseValue reads the value
\* at the head of s: a number (int), a string (str), null (NoneType), true or
\* false (bool), an array (list) or an object (dict). n: the tokens read;
\* for an object, keys: its keys, dicts: the keys whose value is an object,
\* lists: the keys whose value is an array; of a key that comes twice the
\* last value stays. ParseElements reads the elements of an array up to its
\* "]", ParseMembers the members of an object up to its "}".
RECURSIVE ParseValue(_), ParseElements(_), ParseMembers(_)
ParseValue(s) ==
    IF s = <<>> THEN NotJson
    ELSE IF s[1] \in JsonNumbers THEN Parsed(1, "int")
    ELSE IF s[1] \in JsonStrings THEN Parsed(1, "str")
    ELSE IF s[1] = "null" THEN Parsed(1, "NoneType")
    ELSE IF s[1] \in {"true", "false"} THEN Parsed(1, "bool")
    ELSE IF s[1] = "["
    THEN IF Len(s) >= 2 /\ s[2] = "]" THEN Parsed(2, "list")
         ELSE LET elements == ParseElements(Tail(s))
              IN IF elements.ok THEN Parsed(1 + elements.n, "list") ELSE NotJson
    ELSE IF s[1] = "{"
    THEN IF Len(s) >= 2 /\ s[2] = "}" THEN Parsed(2, "dict")
         ELSE LET members == ParseMembers(Tail(s))
              IN IF members.ok
                 THEN [members EXCEPT !.n = 1 + members.n, !.type = "dict"]
                 ELSE NotJson
    ELSE NotJson

ParseElements(s) ==
    LET v == ParseValue(s)
    IN IF ~v.ok \/ Len(s) <= v.n THEN NotJson
       ELSE IF s[v.n + 1] = "]" THEN Parsed(v.n + 1, "list")
       ELSE IF s[v.n + 1] # "," THEN NotJson
       ELSE LET rest == ParseElements(DropFirst(s, v.n + 1))
            IN IF rest.ok THEN Parsed(v.n + 1 + rest.n, "list") ELSE NotJson

ParseMembers(s) ==
    IF Len(s) < 3 \/ s[1] \notin JsonStrings \/ s[2] # ":" THEN NotJson
    ELSE LET v == ParseValue(DropFirst(s, 2))
             used == 2 + v.n
             here(t) == IF v.type = t THEN {s[1]} ELSE {}
         IN IF ~v.ok \/ Len(s) <= used THEN NotJson
            ELSE IF s[used + 1] = "}"
            THEN [ok |-> TRUE, n |-> used + 1, type |-> "dict",
                  keys |-> {s[1]}, dicts |-> here("dict"), lists |-> here("list")]
            ELSE IF s[used + 1] # "," THEN NotJson
            ELSE LET rest == ParseMembers(DropFirst(s, used + 1))
                 IN IF ~rest.ok THEN NotJson
                    ELSE [ok |-> TRUE, n |-> used + 1 + rest.n, type |-> "dict",
                          keys |-> rest.keys \cup {s[1]},
                          dicts |-> rest.dicts
                              \cup (IF s[1] \in rest.keys THEN {} ELSE here("dict")),
                          lists |-> rest.lists
                              \cup (IF s[1] \in rest.keys THEN {} ELSE here("list"))]

\* json.loads: the whole text is one JSON value; anything else raises
\* JSONDecodeError (ok = FALSE).
Loads(s) ==
    LET v == ParseValue(s)
    IN IF v.ok /\ v.n = Len(s) THEN v ELSE NotJson

\* f"data: {payload}\n\n"
DataFrame(payload) == DataPrefix \o payload \o <<NL, NL>>

EventFrame_DataFirst(kind, payload) ==
    DataPrefix \o payload \o <<NL>> \o EventPrefix \o <<kind>> \o <<NL, NL>>

\* f"event: {kind}\ndata: {payload}\n\n"
EventFrame(kind, payload) ==
    EventPrefix \o <<kind>> \o <<NL>> \o DataPrefix \o payload \o <<NL, NL>>

\* The frame a generator of main.py yields for a kind and a payload.
FrameText(kind, payload) ==
    IF kind = "message" THEN DataFrame(payload) ELSE EventFrame(kind, payload)

\* ------------------------------------------------------------- producer

\* random.randint / random.uniform / random.choice: the values drawn
RandomValues == JsonNumbers

\* The if/elif chain of event_generator: the kind of the frame of tick n,
\* "none" when no branch matches.
KindAt_SensorBeforeHeartbeat(n) ==
    IF n % 3 = 0 THEN "message"
    ELSE IF n % 4 = 0 THEN "sensor"
    ELSE IF n % 5 = 0 THEN "heartbeat"
    ELSE IF n % 8 = 0 THEN "notification"
    ELSE "none"

KindAt_NoSensor(n) ==
    IF n % 3 = 0 THEN "message"
    ELSE IF n % 5 = 0 THEN "heartbeat"
    ELSE IF n % 8 = 0 THEN "notification"
    ELSE "none"

KindAt_EverySixth(n) ==
    IF n % 6 = 0 THEN "message"
    ELSE IF n % 5 = 0 THEN "heartbeat"
    ELSE IF n % 8 = 0 THEN "notification"
    ELSE IF n % 4 = 0 THEN "sensor"
    ELSE "none"

KindAt(n) ==
    IF n % 3 = 0 THEN "message"
    ELSE IF n % 5 = 0 THEN "heartbeat"
    ELSE IF n % 8 = 0 THEN "notification"
    ELSE IF n % 4 = 0 THEN "sensor"
    ELSE "none"

\* The first key of the dict each branch builds.
PayloadKey(kind) ==
    CASE kind = "message" -> "\"message\""
      [] kind = "heartbeat" -> "\"cpu_usage\""
      [] kind = "notification" -> "\"level\""
      [] kind = "sensor" -> "\"sensor_data\""
      [] OTHER -> "\"error\""

\* The value under that key: a nested dict for the sensor frame, a drawn
\* value for the others.
PayloadValue(kind, r) == IF kind = "sensor" THEN EmptyObject ELSE <<r>>

is_disconnected_Stale == FALSE
\* await request.is_disconnected(): what the probe answers when polled.
is_disconnected == disconnected

\* The first yield of event_generator, then counter = 0.
YieldConnected ==
    /\ endpoint = "stream"
    /\ gpc = "start"
    /\ sent' = Append(sent, [kind |-> "message", n |-> 0])
    /\ lastFrame' = FrameText("message", Dumps(<<"\"message\"">>, <<"1">>))
    /\ counter' = 0
    /\ gpc' = "poll"
    /\ UNCHANGED <<endpoint, disconnected, polls, gend, sentAtGone>>
    /\ UNCHANGED notProducer

\* The client goes away; request.is_disconnected() is true from then on.
ClientDisconnect ==
    /\ gpc # "done"
    /\ ~disconnected
    /\ disconnected' = TRUE
    /\ sentAtGone' = Len(sent)
    /\ UNCHANGED <<endpoint, gpc, counter, polls, sent, lastFrame, gend>>
    /\ UNCHANGED notProducer

\* One pass of the while loop whose probe says the client is gone: break.
TickDisconnected ==
    /\ gpc = "poll"
    /\ is_disconnected
    /\ polls' = polls + 1
    /\ gpc' = "done"
    /\ gend' = "disconnect"
    /\ UNCHANGED <<endpoint, counter, disconnected, sent, lastFrame, sentAtGone>>
    /\ UNCHANGED notProducer

\* One pass of the while loop with the client connected and no exception:
\* counter += 1, the if/elif chain, at most one yield, then the sleep begins.
\* The client may go away after the probe has answered and before the yield.
TickEmit ==
    /\ endpoint = "stream"
    /\ gpc = "poll"
    /\ ~is_disconnected
    /\ counter < MaxTicks
    /\ polls' = polls + 1
    /\ counter' = counter + 1
    /\ \E r \in RandomValues :
          LET kind == KindAt(counter + 1) IN
          IF kind = "none"
          THEN UNCHANGED <<sent, lastFrame>>
          ELSE /\ sent' = Append(sent, [kind |-> kind, n |-> counter + 1])
               /\ lastFrame' = FrameText(kind, Dumps(<<PayloadKey(kind)>>, PayloadValue(kind, r)))
    /\ \E gone \in BOOLEAN :
          /\ disconnected' = gone
          /\ sentAtGone' = IF gone THEN Len(sent) ELSE sentAtGone
    /\ gpc' = "sleep"
    /\ UNCHANGED <<endpoint, gend>>
    /\ UNCHANGED notProducer

TickRaises_Propagates ==
    /\ endpoint = "stream"
    /\ gpc = "poll"
    /\ ~is_disconnected
    /\ counter < MaxTicks
    /\ polls' = polls + 1
    /\ counter' = counter + 1
    /\ gpc' = "done"
    /\ gend' = "error"
    /\ UNCHANGED <<endpoint, disconnected, sentAtGone, sent, lastFrame>>
    /\ UNCHANGED notProducer

\* One pass of the while loop in which building the payload raises an
\* Exception: the except branch yields one error frame and breaks.
TickRaises ==
    /\ endpoint = "stream"
    /\ gpc = "poll"
    /\ ~is_disconnected
    /\ counter < MaxTicks
    /\ polls' = polls + 1
    /\ counter' = counter + 1
    /\ sent' = Append(sent, [kind |-> "error", n |-> counter + 1])
    /\ lastFrame' = FrameText("error", Dumps(<<"\"error\"">>, <<"1">>))
    /\ gpc' = "done"
    /\ gend' = "error"
    /\ UNCHANGED <<endpoint, disconnected, sentAtGone>>
    /\ UNCHANGED notProducer

\* await asyncio.sleep(2) returns: back to the top of the loop.
SleepReturns ==
    /\ gpc = "sleep"
    /\ gpc' = "poll"
    /\ UNCHANGED <<endpoint, counter, disconnected, polls, sent, lastFrame, gend,
                   sentAtGone>>
    /\ UNCHANGED notProducer

SleepCancelled_YieldsError ==
    /\ gpc = "sleep"
    /\ gpc' = "done"
    /\ gend' = "cancelled"
    /\ sent' = Append(sent, [kind |-> "error", n |-> counter])
    /\ lastFrame' = FrameText("error", Dumps(<<"\"error\"">>, <<"1">>))
    /\ UNCHANGED <<endpoint, counter, disconnected, polls, sentAtGone>>
    /\ UNCHANGED notProducer

\* asyncio.CancelledError raised in the sleep: except CancelledError: break.
\* (A generator closed while suspended at its yield ends the same way:
\* GeneratorExit matches neither except clause.)
SleepCancelled ==
    /\ gpc = "sleep"
    /\ gpc' = "done"
    /\ gend' = "cancelled"
    /\ UNCHANGED <<endpoint, counter, disconnected, polls, sent, lastFrame,
                   sentAtGone>>
    /\ UNCHANGED notProducer

\* asyncio.CancelledError raised while the probe is awaited, outside the try:
\* it leaves the generator, which has yielded nothing in this pass.
PollCancelled ==
    /\ gpc = "poll"
    /\ gpc' = "done"
    /\ gend' = "cancelled"
    /\ UNCHANGED <<endpoint, counter, disconnected, polls, sent, lastFrame,
                   sentAtGone>>
    /\ UNCHANGED notProducer

NextProducer ==
    \/ YieldConnected
    \/ ClientDisconnect
    \/ TickDisconnected
    \/ TickEmit
    \/ TickRaises
    \/ SleepReturns
    \/ SleepCancelled
    \/ PollCancelled

\* ------------------------------------------- the other generators of main.py
\* metrics_generator and channel_generator: a first frame, then a loop of
\* probe, payload, yield, sleep, with no try around it. They keep no counter;
\* counter is used for the number of the tick.
PlainRoutes == {"metrics", "channel"}

\* The key under which the tick's dict carries its nested dict.
PlainKey(route) == IF route = "metrics" THEN "\"metrics\"" ELSE "\"data\""

PlainYieldConnected_Silent ==
    /\ endpoint \in PlainRoutes
    /\ gpc = "start"
    /\ counter' = 0
    /\ gpc' = "poll"
    /\ UNCHANGED <<endpoint, disconnected, polls, gend, sentAtGone, sent, lastFrame>>
    /\ UNCHANGED notProducer

PlainYieldConnected ==
    /\ endpoint \in PlainRoutes
    /\ gpc = "start"
    /\ sent' = Append(sent, [kind |-> "message", n |-> 0])
    /\ lastFrame' = DataFrame(Dumps(<<"\"message\"">>, <<"1">>))
    /\ counter' = 0
    /\ gpc' = "poll"
    /\ UNCHANGED <<endpoint, disconnected, polls, gend, sentAtGone>>
    /\ UNCHANGED notProducer

\* One pass of the loop with the client connected: the payload is built and
\* yielded as a data frame, then the sleep begins. The client may go away
\* after the probe has answered.
PlainTickEmit ==
    /\ endpoint \in PlainRoutes
    /\ gpc = "poll"
    /\ ~is_disconnected
    /\ counter < MaxTicks
    /\ polls' = polls + 1
    /\ counter' = counter + 1
    /\ sent' = Append(sent, [kind |-> "message", n |-> counter + 1])
    /\ lastFrame' = DataFrame(Dumps(<<PlainKey(endpoint)>>, EmptyObject))
    /\ \E gone \in BOOLEAN :
          /\ disconnected' = gone
          /\ sentAtGone' = IF gone THEN Len(sent) ELSE sentAtGone
    /\ gpc' = "sleep"
    /\ UNCHANGED <<endpoint, gend>>
    /\ UNCHANGED notProducer

\* One pass of the loop in which building the payload raises an Exception:
\* nothing catches it, it leaves the generator.
PlainTickRaises ==
    /\ endpoint \in PlainRoutes
    /\ gpc = "poll"
    /\ ~is_disconnected
    /\ counter < MaxTicks
    /\ polls' = polls + 1
    /\ counter' = counter + 1
    /\ gpc' = "raised"
    /\ gend' = "exception"
    /\ UNCHANGED <<endpoint, disconnected, sent, lastFrame, sentAtGone>>
    /\ UNCHANGED notProducer

\* deepwiki_generator: a first frame, the call of the analyze tool in a try,
\* one frame for its outcome, then the completion frame.
DeepwikiStart ==
    /\ endpoint = "deepwiki"
    /\ gpc = "start"
    /\ sent' = Append(sent, [kind |-> "message", n |-> 0, type |-> "start"])
    /\ lastFrame' = DataFrame(Dumps(<<"\"message\"">>, <<"1">>))
    /\ gpc' = "call"
    /\ UNCHANGED <<endpoint, counter, disconnected, polls, gend, sentAtGone>>
    /\ UNCHANGED notProducer

\* call_tool returns a result without the key error: the analysis frame;
\* with it: a frame of type error; or it raises an Exception: except
\* Exception yields a frame of type error.
OutcomeTypes_RaisedSilent(outcome) ==
    IF outcome = "analysis" THEN <<"analysis">>
    ELSE IF outcome = "raised" THEN <<>> ELSE <<"error">>

\* The value of 'type' in the frames yielded for the outcome of the call: by
\* the if branch, the else branch, or the except branch.
OutcomeTypes(outcome) ==
    IF outcome = "analysis" THEN <<"analysis">> ELSE <<"error">>

DeepwikiOutcome ==
    /\ endpoint = "deepwiki"
    /\ gpc = "call"
    /\ \E outcome \in {"analysis", "error_result", "raised"} :
          /\ sent' = sent \o [i \in 1..Len(OutcomeTypes(outcome)) |->
                                [kind |-> "message", n |-> 1,
                                 type |-> OutcomeTypes(outcome)[i]]]
          /\ lastFrame' = DataFrame(
                 IF outcome = "analysis"
                 THEN <<"{">> \o DumpsItems(<<"\"type\"">>, <<"1">>) \o <<",">>
                      \o DumpsItems(<<"\"data\"">>, EmptyObject) \o <<"}">>
                 ELSE Dumps(<<"\"type\"", "\"message\"">>, <<"2">>))
          /\ gend' = outcome
    /\ gpc' = "complete"
    /\ UNCHANGED <<endpoint, counter, disconnected, polls, sentAtGone>>
    /\ UNCHANGED notProducer

\* The task is cancelled while call_tool is awaited (asyncio.CancelledError
\* is not an Exception: the except clause does not catch it), or the
\* generator is closed while suspended at a yield (GeneratorExit): the
\* generator ends with the frames yielded so far.
DeepwikiCancelled ==
    /\ endpoint = "deepwiki"
    /\ gpc \in {"call", "complete"}
    /\ gpc' = "done"
    /\ gend' = "cancelled"
    /\ UNCHANGED <<endpoint, counter, disconnected, polls, sent, lastFrame,
                   sentAtGone>>
    /\ UNCHANGED notProducer

\* The final yield; the generator returns.
DeepwikiComplete ==
    /\ endpoint = "deepwiki"
    /\ gpc = "complete"
    /\ sent' = Append(sent, [kind |-> "message", n |-> 2, type |-> "complete"])
    /\ lastFrame' = DataFrame(Dumps(<<"\"type\"", "\"message\"">>, <<"1">>))
    /\ gpc' = "done"
    /\ UNCHANGED <<endpoint, counter, disconnected, polls, gend, sentAtGone>>
    /\ UNCHANGED notProducer

NextEndpoints ==
    \/ YieldConnected
    \/ ClientDisconnect
    \/ TickDisconnected
    \/ TickEmit
    \/ TickRaises
    \/ SleepReturns
    \/ SleepCancelled
    \/ PollCancelled
    \/ PlainYieldConnected
    \/ PlainTickEmit
    \/ PlainTickRaises
    \/ DeepwikiStart
    \/ DeepwikiOutcome
    \/ DeepwikiCancelled
    \/ DeepwikiComplete

\* ------------------------------------------------------------- consumer

\* response.iter_lines(): the text cut at each newline, the newlines dropped.
RECURSIVE IterLinesFrom(_, _)
IterLinesFrom(text, cur) ==
    IF text = <<>> THEN (IF cur = <<>> THEN <<>> ELSE <<cur>>)
    ELSE IF Head(text) = NL THEN <<cur>> \o IterLinesFrom(Tail(text), <<>>)
    ELSE IterLinesFrom(Tail(text), Append(cur, Head(text)))

IterLines(text) == IterLinesFrom(text, <<>>)

\* The kinds and payloads of the frames a server sends to the client.
WireKinds == {"message", "heartbeat", "sensor"}
WirePayloads == {Dumps(<<"\"cpu_usage\"">>, <<"1">>)}

\* Lines of other origin: a payload that is not JSON, a JSON number, a data
\* field without the space after the colon.
OddLines == {DataPrefix \o <<"x">>,
             DataPrefix \o <<"1">>,
             <<"d", "a", "t", "a", ":">> \o EmptyObject}

\* Every line the stream can hand to the loop.
LineSet ==
    OddLines \cup
    UNION {{IterLines(FrameText(k, p))[i] : i \in 1..Len(IterLines(FrameText(k, p)))}
           : k \in WireKinds, p \in WirePayloads}

\* event_type before any "event: " line was seen (the local is unbound).
NoKind == <<>>
MessageKind == <<"message">>

\* line.startswith('data: ')
IsDataLine_NoSpace(line) == StartsWith(line, <<"d", "a", "t", "a", ":">>)

IsDataLine(line) == StartsWith(line, DataPrefix)

\* line.startswith('event: ')
IsEventLine(line) == StartsWith(line, EventPrefix)

\* event = {'event': 'message', 'data': line[6:]}; event_type is not read.
EventOf(line, pending) == [event |-> MessageKind, data |-> DropFirst(line, 6)]

default_handler_MetricsFirst(event) ==
    LET data == Loads(event.data) IN
    IF ~data.ok THEN "raw"
    ELSE IF data.type # "dict" THEN "error"
    ELSE IF "\"metrics\"" \in data.keys
         THEN IF "\"metrics\"" \in data.dicts THEN "metrics" ELSE "error"
    ELSE IF event.event = <<"heartbeat">> THEN "heartbeat"
    ELSE IF event.event = <<"notification">>
         THEN IF "\"level\"" \in data.dicts \union data.lists
              THEN "error" ELSE "notification"
    ELSE IF event.event = <<"sensor">>
         THEN IF "\"sensor_data\"" \in data.keys \ data.dicts THEN "error" ELSE "sensor"
    ELSE "message"

\* _default_handler: what it prints for an event, "error" when it raises an
\* exception other than JSONDecodeError: the payload is JSON but not an
\* object (.get, `in' or the index fails on an int, a str, a list, None or a
\* bool), the level of a notification is an object or an array (unhashable,
\* it cannot be the key of the icon lookup), or sensor_data or metrics is
\* there and is not an object (.get fails on it).
default_handler(event) ==
    LET data == Loads(event.data) IN
    IF ~data.ok THEN "raw"
    ELSE IF data.type # "dict" THEN "error"
    ELSE IF event.event = <<"heartbeat">> THEN "heartbeat"
    ELSE IF event.event = <<"notification">>
         THEN IF "\"level\"" \in data.dicts \union data.lists
              THEN "error" ELSE "notification"
    ELSE IF event.event = <<"sensor">>
         THEN IF "\"sensor_data\"" \in data.keys \ data.dicts THEN "error" ELSE "sensor"
    ELSE IF "\"metrics\"" \in data.keys
         THEN IF "\"metrics\"" \in data.dicts THEN "metrics" ELSE "error"
    ELSE "message"

\* What a callback given to connect can do with an event.
CallbackOutcomes == {"callback", "error"}

\* Where connect is after `except Exception' has printed the error.
AfterException_Breaks == "done"

AfterException == "loop"

AfterTransportError_Retries == "called"
\* Where connect goes after `except RequestException': the error is printed,
\* the finally clause runs and connect returns; nothing loops back to the GET.
AfterTransportError == "done"

\* connect(endpoint, callback) is called: the thread is about to run its
\* first statement.
Call ==
    /\ cpc = "idle"
    /\ cpc' = "called"
    /\ UNCHANGED <<running, hasCallback, event_type, received, dispatched, cend,
                   attempts, stopAt>>
    /\ UNCHANGED notConsumer

\* connect: self.running = True; requests.get is called and the thread
\* waits in it.
ConnectBegins ==
    /\ cpc = "called"
    /\ running' = TRUE
    /\ attempts' = attempts + 1
    /\ cpc' = "get"
    /\ UNCHANGED <<hasCallback, event_type, received, dispatched, cend, stopAt>>
    /\ UNCHANGED notConsumer

\* connect: the GET succeeds and the status is good; the loop begins.
Connect ==
    /\ cpc = "get"
    /\ \E cb \in BOOLEAN : hasCallback' = cb
    /\ cpc' = "loop"
    /\ UNCHANGED <<running, event_type, received, dispatched, cend, attempts,
                   stopAt>>
    /\ UNCHANGED notConsumer

\* The positions of a thread that has left the try block of connect and has
\* not yet run the finally clause, one for each way of leaving.
Leaving == {"leaving_stopped", "leaving_interrupted", "leaving_raised",
            "leaving_eof", "leaving_transport"}

\* The positions of a thread that is inside connect.
InConnect == {"called", "get", "loop", "handling"} \union Leaving

\* How connect ended, for the position it left the try block from.
EndOf(pc) ==
    CASE pc = "leaving_stopped" -> "stopped"
      [] pc = "leaving_interrupted" -> "interrupted"
      [] pc = "leaving_raised" -> "KeyboardInterrupt"
      [] pc = "leaving_eof" -> "eof"
      [] pc = "leaving_transport" -> "transport_error"

\* connect: requests.get or raise_for_status raises RequestException; it is
\* printed by the except clause. The finally clause has yet to run.
ConnectFails ==
    /\ cpc = "get"
    /\ \E cb \in BOOLEAN : hasCallback' = cb
    /\ cpc' = "leaving_transport"
    /\ UNCHANGED <<running, event_type, received, dispatched, cend, attempts,
                   stopAt>>
    /\ UNCHANGED notConsumer

\* stop(), from another thread, while a connect is running: anywhere between
\* its first statement and its finally clause, the handler call included.
Stop ==
    /\ cpc \in InConnect \/ cpc2 \in InConnect
    /\ stopAt < 0
    /\ running' = FALSE
    /\ stopAt' = Len(received)
    /\ UNCHANGED <<cpc, hasCallback, event_type, received, dispatched, cend,
                   attempts>>
    /\ UNCHANGED notConsumer

\* One pass of the for loop that reads running and finds it false: break.
\* The finally clause has yet to run.
LineAfterStop ==
    /\ cpc = "loop"
    /\ ~running
    /\ Len(received) < MaxLines
    /\ \E line \in LineSet : received' = Append(received, line)
    /\ cpc' = "leaving_stopped"
    /\ UNCHANGED <<running, hasCallback, event_type, dispatched, cend>>
    /\ UNCHANGED <<attempts, stopAt>>
    /\ UNCHANGED notConsumer

\* One pass of the for loop over a blank line, an "event: " line or a line
\* of another shape: no dispatch.
LineSkipped ==
    /\ cpc = "loop"
    /\ running
    /\ Len(received) < MaxLines
    /\ \E line \in LineSet :
          /\ ~(line # <<>> /\ IsDataLine(line))
          /\ received' = Append(received, line)
          /\ event_type' = IF line # <<>> /\ IsEventLine(line)
                           THEN DropFirst(line, 7) ELSE event_type
    /\ UNCHANGED <<cpc, running, hasCallback, dispatched, cend>>
    /\ UNCHANGED <<attempts, stopAt>>
    /\ UNCHANGED notConsumer

\* One pass of the for loop over a "data: " line, up to the call: running is
\* read true, the event is built and the callback or _default_handler is
\* called with it. The handler is running when the step ends.
LineDispatched ==
    /\ cpc = "loop"
    /\ running
    /\ Len(received) < MaxLines
    /\ \E line \in LineSet :
          /\ line # <<>> /\ IsDataLine(line)
          /\ received' = Append(received, line)
          /\ LET event == EventOf(line, event_type) IN
             dispatched' = Append(dispatched,
                 [event |-> event.event, data |-> event.data,
                  at |-> Len(received) + 1, out |-> "running"])
    /\ cpc' = "handling"
    /\ UNCHANGED <<running, hasCallback, event_type, cend>>
    /\ UNCHANGED <<attempts, stopAt>>
    /\ UNCHANGED notConsumer

\* The handler called for the last dispatched event returns or raises an
\* Exception, which `except Exception' prints; the loop goes on either way.
HandlerReturns ==
    /\ cpc = "handling"
    /\ LET j == Len(dispatched) IN
       \E out \in (IF hasCallback THEN CallbackOutcomes
                   ELSE {default_handler(dispatched[j])}) :
          /\ dispatched' = [dispatched EXCEPT ![j].out = out]
          /\ cpc' = IF out = "error" THEN AfterException ELSE "loop"
          /\ cend' = IF out = "error" /\ AfterException # "loop"
                     THEN "error" ELSE cend
    /\ UNCHANGED <<running, hasCallback, event_type, received>>
    /\ UNCHANGED <<attempts, stopAt>>
    /\ UNCHANGED notConsumer

\* KeyboardInterrupt is raised while the handler runs: `except
\* KeyboardInterrupt' of the inner try prints and breaks. The finally clause
\* has yet to run.
HandlerInterrupted ==
    /\ cpc = "handling"
    /\ dispatched' = [dispatched EXCEPT ![Len(dispatched)].out = "interrupted"]
    /\ cpc' = "leaving_interrupted"
    /\ UNCHANGED <<running, hasCallback, event_type, received, cend>>
    /\ UNCHANGED <<attempts, stopAt>>
    /\ UNCHANGED notConsumer

\* One pass of the for loop over a line that is not blank, during which
\* KeyboardInterrupt is raised inside the inner try before any handler is
\* called (while the line is decoded and parsed): nothing is dispatched for
\* the line, `except KeyboardInterrupt' prints and breaks. An "event: " line
\* may or may not have been remembered by then.
LineInterrupted ==
    /\ cpc = "loop"
    /\ running
    /\ Len(received) < MaxLines
    /\ \E line \in LineSet :
          /\ line # <<>>
          /\ received' = Append(received, line)
          /\ \E kind \in {event_type,
                          IF IsEventLine(line) THEN DropFirst(line, 7)
                          ELSE event_type} : event_type' = kind
    /\ cpc' = "leaving_interrupted"
    /\ UNCHANGED <<running, hasCallback, dispatched, cend>>
    /\ UNCHANGED <<attempts, stopAt>>
    /\ UNCHANGED notConsumer

\* KeyboardInterrupt raised while iter_lines waits for the next line: outside
\* the inner try, and no except clause of the outer try matches it (it is
\* not an Exception); it propagates through the finally clause.
InterruptWhileReading ==
    /\ cpc = "loop"
    /\ cpc' = "leaving_raised"
    /\ UNCHANGED <<running, hasCallback, event_type, received, dispatched, cend>>
    /\ UNCHANGED <<attempts, stopAt>>
    /\ UNCHANGED notConsumer

\* The stream ends: the for loop is exhausted.
StreamEnds ==
    /\ cpc = "loop"
    /\ cpc' = "leaving_eof"
    /\ UNCHANGED <<running, hasCallback, event_type, received, dispatched, cend>>
    /\ UNCHANGED <<attempts, stopAt>>
    /\ UNCHANGED notConsumer

\* iter_lines raises a RequestException (the connection breaks): printed by
\* the except clause.
ReadFails ==
    /\ cpc = "loop"
    /\ cpc' = "leaving_transport"
    /\ UNCHANGED <<running, hasCallback, event_type, received, dispatched, cend>>
    /\ UNCHANGED <<attempts, stopAt>>
    /\ UNCHANGED notConsumer

\* finally: self.running = False, whichever way the try block was left; then
\* connect returns, or the KeyboardInterrupt goes on to the caller.
Finally ==
    /\ cpc \in Leaving
    /\ running' = FALSE
    /\ cend' = EndOf(cpc)
    /\ cpc' = CASE cpc = "leaving_raised" -> "raised"
                [] cpc = "leaving_transport" -> AfterTransportError
                [] OTHER -> "done"
    /\ UNCHANGED <<hasCallback, event_type, received, dispatched>>
    /\ UNCHANGED <<attempts, stopAt>>
    /\ UNCHANGED notConsumer

NextConsumer ==
    \/ Call
    \/ ConnectBegins
    \/ Connect
    \/ ConnectFails
    \/ Stop
    \/ LineAfterStop
    \/ LineSkipped
    \/ LineDispatched
    \/ HandlerReturns
    \/ HandlerInterrupted
    \/ LineInterrupted
    \/ InterruptWhileReading
    \/ StreamEnds
    \/ ReadFails
    \/ Finally

\* -------------------------------------------------------- specifications

\* ------------------------------------------ _default_handler called directly
\* _default_handler(event, endpoint) applied to events of every kind, as a
\* caller other than connect can hand them over. Each call is recorded in
\* dispatched, with at = 0.

MaxHandled == 2

HandlerKinds == {<<"message">>, <<"heartbeat">>, <<"notification">>, <<"sensor">>}
HandlerPayloads ==
    {Dumps(<<"\"cpu_usage\"">>, <<"1">>),
     Dumps(<<"\"cpu_usage\"", "\"metrics\"">>, EmptyObject),
     Dumps(<<"\"metrics\"">>, EmptyObject),
     Dumps(<<"\"metrics\"">>, <<"1">>),
     Dumps(<<"\"metrics\"">>, <<"null">>),
     Dumps(<<"\"sensor_data\"">>, EmptyObject),
     Dumps(<<"\"sensor_data\"">>, <<"2">>),
     Dumps(<<"\"sensor_data\"">>, EmptyArray),
     Dumps(<<"\"message\"">>, <<"1">>),
     Dumps(<<"\"level\"">>, <<"1">>),
     Dumps(<<"\"level\"">>, <<"\"info\"">>),
     Dumps(<<"\"level\"">>, EmptyObject),
     Dumps(<<"\"level\"">>, EmptyArray),
     Dumps(<<"\"level\"">>, <<"[", "1", ",", "true", "]">>),
     Dumps(<<"\"level\"">>, Dumps(<<"\"type\"">>, <<"1">>)),
     <<"1">>,
     <<"\"metrics\"">>,
     <<"null">>,
     <<"true">>,
     EmptyArray,
     <<"[", "\"metrics\"", "]">>,
     <<"x">>,
     <<"[", "1">>}

HandlerCall ==
    /\ Len(dispatched) < MaxHandled
    /\ \E kind \in HandlerKinds, payload \in HandlerPayloads :
          LET event == [event |-> kind, data |-> payload] IN
          dispatched' = Append(dispatched,
              [event |-> kind, data |-> payload, at |-> 0,
               out |-> default_handler(event)])
    /\ UNCHANGED <<cpc, running, hasCallback, event_type, received, cend,
                   attempts, stopAt>>
    /\ UNCHANGED notConsumer

NextHandler ==
    \/ HandlerCall

\* ------------------------------------------ a second connect, same client
\* A second thread runs connect on the same FastAPISSEClient, for another
\* endpoint and with the default handler. Its locals are its own; running is
\* the object's field, the one the first connect reads and writes.

MaxFirstLines == 1
MaxLines2 == 2

\* What the second stream delivers: a data line and a blank line.
LineSet2 == {DataPrefix \o Dumps(<<"\"cpu_usage\"">>, <<"2">>), <<>>}

firstLocals == <<cpc, hasCallback, event_type, received, dispatched, cend,
                 attempts, stopAt>>
notSecond == <<firstLocals, pvars, evars, svars, bvars, mvars>>

\* The first connect, reading at most MaxFirstLines lines.
FirstStep ==
    /\ NextConsumer
    /\ Len(received') <= MaxFirstLines

Call2 ==
    /\ cpc2 = "idle"
    /\ cpc2' = "called"
    /\ UNCHANGED <<running, received2, dispatched2, cend2>>
    /\ UNCHANGED notSecond

\* self.running = True; the thread then waits in requests.get.
ConnectBegins2 ==
    /\ cpc2 = "called"
    /\ running' = TRUE
    /\ cpc2' = "get"
    /\ UNCHANGED <<received2, dispatched2, cend2>>
    /\ UNCHANGED notSecond

\* The GET succeeds.
Connect2 ==
    /\ cpc2 = "get"
    /\ cpc2' = "loop"
    /\ UNCHANGED <<running, received2, dispatched2, cend2>>
    /\ UNCHANGED notSecond

\* The GET or the status check raises RequestException, which is printed.
\* The finally clause has yet to run.
ConnectFails2 ==
    /\ cpc2 = "get"
    /\ cpc2' = "leaving_transport"
    /\ UNCHANGED <<running, received2, dispatched2, cend2>>
    /\ UNCHANGED notSecond

\* if not self.running: break. The finally clause has yet to run.
LineAfterStop2 ==
    /\ cpc2 = "loop"
    /\ ~running
    /\ Len(received2) < MaxLines2
    /\ \E line \in LineSet2 : received2' = Append(received2, line)
    /\ cpc2' = "leaving_stopped"
    /\ UNCHANGED <<running, dispatched2, cend2>>
    /\ UNCHANGED notSecond

LineSkipped2 ==
    /\ cpc2 = "loop"
    /\ running
    /\ Len(received2) < MaxLines2
    /\ \E line \in LineSet2 :
          /\ ~(line # <<>> /\ IsDataLine(line))
          /\ received2' = Append(received2, line)
    /\ UNCHANGED <<running, cpc2, dispatched2, cend2>>
    /\ UNCHANGED notSecond

\* A "data: " line: running is read true, the event is built and
\* _default_handler is called with it.
LineDispatched2 ==
    /\ cpc2 = "loop"
    /\ running
    /\ Len(received2) < MaxLines2
    /\ \E line \in LineSet2 :
          /\ line # <<>> /\ IsDataLine(line)
          /\ received2' = Append(received2, line)
          /\ LET event == EventOf(line, NoKind) IN
             dispatched2' = Append(dispatched2,
                 [event |-> event.event, data |-> event.data,
                  at |-> Len(received2) + 1, out |-> "running"])
    /\ cpc2' = "handling"
    /\ UNCHANGED <<running, cend2>>
    /\ UNCHANGED notSecond

\* _default_handler returns, or raises an Exception that is printed.
HandlerReturns2 ==
    /\ cpc2 = "handling"
    /\ LET j == Len(dispatched2) IN
       dispatched2' = [dispatched2 EXCEPT
                          ![j].out = default_handler(dispatched2[j])]
    /\ cpc2' = "loop"
    /\ UNCHANGED <<running, received2, cend2>>
    /\ UNCHANGED notSecond

\* The second stream ends, or its read raises RequestException. The finally
\* clause has yet to run.
Ends2 ==
    /\ cpc2 = "loop"
    /\ \E how \in {"leaving_eof", "leaving_transport"} : cpc2' = how
    /\ UNCHANGED <<running, received2, dispatched2, cend2>>
    /\ UNCHANGED notSecond

\* finally: self.running = False; the second connect returns.
Finally2 ==
    /\ cpc2 \in Leaving
    /\ running' = FALSE
    /\ cend2' = EndOf(cpc2)
    /\ cpc2' = "done"
    /\ UNCHANGED <<received2, dispatched2>>
    /\ UNCHANGED notSecond

NextSecond ==
    \/ Call2
    \/ ConnectBegins2
    \/ Connect2
    \/ ConnectFails2
    \/ LineAfterStop2
    \/ LineSkipped2
    \/ LineDispatched2
    \/ HandlerReturns2
    \/ Ends2
    \/ Finally2

NextTwoClients ==
    \/ FirstStep
    \/ NextSecond

\* --------------------------------------------- two /stream connections
\* Each GET /stream calls stream_events, which creates its own
\* event_generator; counter is a local of that generator. A pass of the loop
\* is taken as one step here, the sleep included.

MaxStreamTicks == 5
MaxReconnects == 1

NextCounter_Shared(c) == ecounter[1] + ecounter[2] + 1
\* counter += 1, in the generator of connection c.
NextCounter(c) == ecounter[c] + 1

\* GET /stream on slot c: a new generator, its first frame, counter = 0.
StreamOpen(c) ==
    /\ epc[c] = "closed"
    /\ egen[c] <= MaxReconnects
    /\ egen' = [egen EXCEPT ![c] = @ + 1]
    /\ epc' = [epc EXCEPT ![c] = "poll"]
    /\ ecounter' = [ecounter EXCEPT ![c] = 0]
    /\ esent' = [esent EXCEPT ![c] = <<[kind |-> "message", n |-> 0]>>]
    /\ eend' = [eend EXCEPT ![c] = "none"]
    /\ UNCHANGED notStreams

\* One pass of the loop of connection c, the client connected.
StreamTick(c) ==
    /\ epc[c] = "poll"
    /\ ecounter[c] < MaxStreamTicks
    /\ NextCounter(c) <= MaxStreamTicks
    /\ ecounter' = [ecounter EXCEPT ![c] = NextCounter(c)]
    /\ LET kind == KindAt(NextCounter(c)) IN
       esent' = IF kind = "none" THEN esent
                ELSE [esent EXCEPT ![c] =
                         Append(@, [kind |-> kind, n |-> NextCounter(c)])]
    /\ UNCHANGED <<epc, eend, egen>>
    /\ UNCHANGED notStreams

\* One pass of the loop of connection c that raises: the error frame, break.
StreamRaises(c) ==
    /\ epc[c] = "poll"
    /\ ecounter[c] < MaxStreamTicks
    /\ NextCounter(c) <= MaxStreamTicks
    /\ ecounter' = [ecounter EXCEPT ![c] = NextCounter(c)]
    /\ esent' = [esent EXCEPT ![c] =
                    Append(@, [kind |-> "error", n |-> NextCounter(c)])]
    /\ epc' = [epc EXCEPT ![c] = "closed"]
    /\ eend' = [eend EXCEPT ![c] = "error"]
    /\ UNCHANGED egen
    /\ UNCHANGED notStreams

\* The client of connection c is gone: the probe answers true, break.
StreamDisconnect(c) ==
    /\ epc[c] = "poll"
    /\ epc' = [epc EXCEPT ![c] = "closed"]
    /\ eend' = [eend EXCEPT ![c] = "disconnect"]
    /\ UNCHANGED <<ecounter, esent, egen>>
    /\ UNCHANGED notStreams

NextStreams ==
    \E c \in Connections :
        \/ StreamOpen(c)
        \/ StreamTick(c)
        \/ StreamRaises(c)
        \/ StreamDisconnect(c)

\* ------------------------------------------------------------ MCPServer
MaxCalls == 2

\* AVAILABLE_TOOLS: the tools taken here, each with its required parameter.
ToolNames == {"analyze_repository", "resolve_library"}
RequiredOf(tool_name) ==
    IF tool_name = "analyze_repository" THEN "repository" ELSE "library_name"

\* The calls made: the analyzer or an unregistered name, and the set of
\* parameter names given: none, or the analyzer's required one.
CallNames == {"analyze_repository", "does_not_exist"}
CallParameters == SUBSET {"repository"}

NoError == <<>>
NoResult == [status |-> "none", tool_name |-> "", error |-> NoError]

NotFound_Generic(tool_name) == <<"Tool not found">>
\* f"Tool '{tool_name}' not found"
NotFound(tool_name) == <<"Tool '", tool_name, "' not found">>

\* BaseTool.validate_input: the error it raises, or none.
validate_input(tool_name, params) ==
    IF RequiredOf(tool_name) \in params THEN NoError
    ELSE <<"Required parameter '", RequiredOf(tool_name), "' is missing">>

\* tools.execute_tool: the error raised by the lookup or by the tool's
\* execute, or none when the tool returns its result.
execute_tool(tool_name, params) ==
    IF tool_name \notin ToolNames THEN NotFound(tool_name)
    ELSE validate_input(tool_name, params)

\* The body of the try of MCPServer.execute_tool: the error raised, or none.
TryExecute(tool_name, parameters) ==
    IF tool_name \notin ToolNames THEN NotFound(tool_name)
    ELSE execute_tool(tool_name, parameters)

\* The session_id argument: None, or an id.
SessionIds == {"s1", "s2"}
NoSessionId == "None"
CallSessions == {NoSessionId, "s1"}

NoCall == [tool_name |-> "", parameters |-> {}, session_id |-> NoSessionId]
\* n: the number of the operation that was answered.
NoSessionReply == [op |-> "none", session_id |-> NoSessionId, kind |-> "none",
                   n |-> 0]

StatsAfter_FailedUncounted(stats, ok) ==
    [total_executions |-> stats.total_executions,
     successful_executions |-> stats.successful_executions + (IF ok THEN 1 ELSE 0),
     failed_executions |-> stats.failed_executions]

\* self.server_stats when a call returns: successful_executions += 1 after
\* the try body, failed_executions += 1 in the except branch.
StatsAfter(stats, ok) ==
    [total_executions |-> stats.total_executions,
     successful_executions |-> stats.successful_executions + (IF ok THEN 1 ELSE 0),
     failed_executions |-> stats.failed_executions + (IF ok THEN 0 ELSE 1)]

\* The indexes of the history records of the calls in flight.
InFlight == {c.i : c \in in_flight}

\* The call of record i moves from one position to the next.
Moved(i, from, to) ==
    /\ [i |-> i, at |-> from] \in in_flight
    /\ in_flight' = (in_flight \ {[i |-> i, at |-> from]})
                    \cup {[i |-> i, at |-> to]}

\* MCPServer.execute_tool(tool_name, parameters, session_id): the record is
\* appended with status running.  Other threads run between the
\* statements of a call.
ExecuteTool ==
    /\ calls + others < MaxCalls
    /\ calls' = calls + 1
    /\ \E tool_name \in CallNames, parameters \in CallParameters,
          session_id \in CallSessions :
          execution_history' = Append(execution_history,
              [tool_name |-> tool_name, parameters |-> parameters,
               session_id |-> session_id, status |-> "running"])
    /\ in_flight' = in_flight
                    \cup {[i |-> Len(execution_history) + 1, at |-> "appended"]}
    /\ UNCHANGED <<server_stats, lastCall, lastResult, others, streamCall,
                   streamed, spc, sessions, sessionReply, creating>>
    /\ UNCHANGED notServer

\* self.server_stats["total_executions"] += 1
ExecuteToolCounted ==
    /\ \E i \in InFlight : Moved(i, "appended", "counted")
    /\ server_stats' = [server_stats EXCEPT
                           !.total_executions = server_stats.total_executions + 1]
    /\ UNCHANGED <<execution_history, lastCall, lastResult, calls, others,
                   streamCall, streamed, spc, sessions, sessionReply, creating>>
    /\ UNCHANGED notServer

\* The try body up to execution_record.update, or the except branch up to
\* its execution_record.update: the tool is run and the call's record gets
\* its final status.
ExecuteToolUpdates ==
    /\ \E i \in InFlight :
          LET record == execution_history[i]
              ok == TryExecute(record.tool_name, record.parameters) = NoError
          IN /\ Moved(i, "counted", "updated")
             /\ execution_history' = [execution_history EXCEPT
                    ![i].status = IF ok THEN "completed" ELSE "failed"]
    /\ UNCHANGED <<server_stats, lastCall, lastResult, calls, others, streamCall,
                   streamed, spc, sessions, sessionReply, creating>>
    /\ UNCHANGED notServer

\* The rest of MCPServer.execute_tool: successful_executions += 1 or, in the
\* except branch, failed_executions += 1, and the result dict is returned.
ExecuteToolReturns ==
    /\ \E i \in InFlight :
          LET record == execution_history[i]
              error == TryExecute(record.tool_name, record.parameters)
              ok == record.status = "completed"
          IN /\ [i |-> i, at |-> "updated"] \in in_flight
             /\ in_flight' = in_flight \ {[i |-> i, at |-> "updated"]}
             /\ server_stats' = StatsAfter(server_stats, ok)
             /\ lastCall' = [tool_name |-> record.tool_name,
                             parameters |-> record.parameters,
                             session_id |-> record.session_id]
             /\ lastResult' = [status |-> IF ok THEN "success" ELSE "error",
                               tool_name |-> record.tool_name, error |-> error]
    /\ UNCHANGED <<execution_history, calls, others, streamCall, streamed, spc,
                   sessions, sessionReply, creating>>
    /\ UNCHANGED notServer

StreamEvent(event, status, error) ==
    [event |-> event, status |-> status, error |-> error]

StreamEvents_NoCompleteOnError(tool_name, parameters) ==
    LET start == StreamEvent("execution_start", "", NoError)
        error == TryExecute(tool_name, parameters)
    IN IF tool_name \notin ToolNames
       THEN <<start, StreamEvent("execution_error", "", error)>>
       ELSE <<start,
              StreamEvent("validation_success", "", NoError),
              StreamEvent("execution_progress", "", NoError)>>
            \o (IF error = NoError
                THEN <<StreamEvent("execution_result", "", NoError),
                       StreamEvent("execution_complete", "success", NoError)>>
                ELSE <<StreamEvent("execution_error", "", error)>>)

\* The events one run of execute_tool_stream yields when consumed to its end:
\* execution_start; the tool lookup, which raises for an unregistered name;
\* validation_success and execution_progress; the tool's run; then
\* execution_result and execution_complete, or, from the except branch,
\* execution_error and execution_complete.
StreamEvents(tool_name, parameters) ==
    LET start == StreamEvent("execution_start", "", NoError)
        error == TryExecute(tool_name, parameters)
        failed == <<StreamEvent("execution_error", "", error),
                    StreamEvent("execution_complete", "error", NoError)>>
    IN IF tool_name \notin ToolNames
       THEN <<start>> \o failed
       ELSE <<start,
              StreamEvent("validation_success", "", NoError),
              StreamEvent("execution_progress", "", NoError)>>
            \o (IF error = NoError
                THEN <<StreamEvent("execution_result", "", NoError),
                       StreamEvent("execution_complete", "success", NoError)>>
                ELSE failed)

\* MCPServer.execute_tool_stream is called: the generator is created and has
\* run nothing yet.  One run is followed at a time; runs share no state.
ExecuteToolStream ==
    /\ calls + others < MaxCalls
    /\ spc # "open"
    /\ others' = others + 1
    /\ \E tool_name \in CallNames, parameters \in CallParameters,
          session_id \in CallSessions :
          streamCall' = [tool_name |-> tool_name, parameters |-> parameters,
                         session_id |-> session_id]
    /\ streamed' = <<>>
    /\ spc' = "open"
    /\ UNCHANGED <<execution_history, server_stats, lastCall, lastResult, calls,
                   in_flight, sessions, sessionReply,
                   creating>>
    /\ UNCHANGED notServer

\* The consumer asks for the next event: the generator runs to its next
\* yield.
StreamNext ==
    /\ spc = "open"
    /\ LET events == StreamEvents(streamCall.tool_name, streamCall.parameters) IN
          /\ Len(streamed) < Len(events)
          /\ streamed' = Append(streamed, events[Len(streamed) + 1])
    /\ UNCHANGED <<execution_history, server_stats, lastCall, lastResult, calls,
                   in_flight, others, streamCall, spc, sessions, sessionReply,
                   creating>>
    /\ UNCHANGED notServer

\* The consumer asks for the next event after the last yield: the generator
\* returns; the run was consumed to its end.
StreamReturns ==
    /\ spc = "open"
    /\ Len(streamed) = Len(StreamEvents(streamCall.tool_name, streamCall.parameters))
    /\ spc' = "done"
    /\ UNCHANGED <<execution_history, server_stats, lastCall, lastResult, calls,
                   in_flight, others, streamCall, streamed, sessions, sessionReply,
                   creating>>
    /\ UNCHANGED notServer

\* The consumer stops early and closes the generator, suspended at a yield
\* or not yet started: no further event.
StreamClosed ==
    /\ spc = "open"
    /\ Len(streamed) < Len(StreamEvents(streamCall.tool_name, streamCall.parameters))
    /\ spc' = "closed"
    /\ UNCHANGED <<execution_history, server_stats, lastCall, lastResult, calls,
                   in_flight, others, streamCall, streamed, sessions, sessionReply,
                   creating>>
    /\ UNCHANGED notServer

\* metadata or {}
Metadata == {"None", "m1"}
MetadataOr(metadata) == IF metadata = "None" THEN "{}" ELSE metadata

\* self.sessions[session_id] = session: the record is stored under the id,
\* over whatever is there.
SessionsAfterCreate(map, session_id, metadata) ==
    [i \in DOMAIN map \cup {session_id} |->
        IF i = session_id
        THEN [metadata |-> MetadataOr(metadata), executions |-> <<>>,
              status |-> "active"]
        ELSE map[i]]

\* MCPServer.create_session(session_id, metadata): the test
\* `session_id in self.sessions'.  The error is returned when the id is
\* there; when not, the call goes on to build its record, and other threads
\* run before it stores it.
CreateSession ==
    /\ calls + others < MaxCalls
    /\ others' = others + 1
    /\ \E session_id \in SessionIds, metadata \in Metadata :
          IF session_id \in DOMAIN sessions
          THEN /\ sessionReply' = [op |-> "create", session_id |-> session_id,
                                   kind |-> "already exists",
                                   n |-> calls + others + 1]
               /\ UNCHANGED creating
          ELSE /\ creating' = creating
                      \cup {[session_id |-> session_id, metadata |-> metadata,
                             n |-> calls + others + 1]}
               /\ UNCHANGED sessionReply
    /\ UNCHANGED <<execution_history, server_stats, lastCall, lastResult, calls,
                   in_flight, streamCall, streamed, spc, sessions>>
    /\ UNCHANGED notServer

\* The rest of create_session: the record is stored and the call returns
\* the message `created'.
CreateSessionStores ==
    /\ \E c \in creating :
          /\ sessions' = SessionsAfterCreate(sessions, c.session_id, c.metadata)
          /\ sessionReply' = [op |-> "create", session_id |-> c.session_id,
                              kind |-> "created", n |-> c.n]
          /\ creating' = creating \ {c}
    /\ UNCHANGED <<execution_history, server_stats, lastCall, lastResult, calls,
                   in_flight, others, streamCall, streamed, spc>>
    /\ UNCHANGED notServer

\* MCPServer.get_session_info(session_id)
GetSessionInfo ==
    /\ calls + others < MaxCalls
    /\ others' = others + 1
    /\ \E session_id \in SessionIds :
          sessionReply' = [op |-> "get", session_id |-> session_id,
                           kind |-> IF session_id \in DOMAIN sessions
                                    THEN "session" ELSE "not found",
                           n |-> calls + others + 1]
    /\ UNCHANGED <<execution_history, server_stats, lastCall, lastResult, calls,
                   in_flight, streamCall, streamed, spc, sessions, creating>>
    /\ UNCHANGED notServer

NextServer ==
    \/ ExecuteTool
    \/ ExecuteToolCounted
    \/ ExecuteToolUpdates
    \/ ExecuteToolReturns
    \/ ExecuteToolStream
    \/ StreamNext
    \/ StreamReturns
    \/ StreamClosed
    \/ CreateSession
    \/ CreateSessionStores
    \/ GetSessionInfo

\* ------------------------------------------------------ POST /api/broadcast
\* broadcast_message(message: dict): the body is a JSON object; each of the
\* keys message, timestamp and sender is absent or holds a value.

MaxPosts == 2

Absent == "<absent>"
BodyValues == {"hello", "", "test_script"}
Bodies == [message : BodyValues \cup {Absent},
           timestamp : BodyValues \cup {Absent},
           sender : BodyValues \cup {Absent}]

\* What datetime.datetime.now().isoformat() returns while a request is served.
ServerTimes == {"now1", "now2"}

NoBody == [message |-> Absent, timestamp |-> Absent, sender |-> Absent]
NoReply == [status |-> "", timestamp |-> "",
            data |-> [type |-> "", message |-> "", timestamp |-> "", sender |-> ""]]

\* dict.get(key, default)
Get(d, key, default) == IF d[key] = Absent THEN default ELSE d[key]

broadcast_data_Echo(message, now) ==
    [type |-> "broadcast",
     message |-> Get(message, "message", ""),
     timestamp |-> Get(message, "timestamp", now),
     sender |-> Get(message, "sender", "API")]

\* broadcast_data = {'type': .., 'message': message.get('message', ''), ..}
broadcast_data(message, now) ==
    [type |-> "broadcast",
     message |-> Get(message, "message", ""),
     timestamp |-> now,
     sender |-> "API"]

\* One request served by broadcast_message.
BroadcastMessage ==
    /\ posts < MaxPosts
    /\ posts' = posts + 1
    /\ \E message \in Bodies, now1 \in ServerTimes, now2 \in ServerTimes :
          /\ request_body' = message
          /\ reply' = [status |-> "Message queued for broadcast",
                       data |-> broadcast_data(message, now1),
                       timestamp |-> now2]
    /\ UNCHANGED notBroadcast

NextBroadcast ==
    \/ BroadcastMessage

\* ---------------------------------------------------------------- MCPClient
\* One MCPClient shared by tasks of one event loop: an invocation runs until
\* it awaits a post, and the others run until the service has answered it.

MaxInvocations == 3

\* Answers to the initialize request: 200 with or without the header
\* mcp-session-id, an HTTP error status, no answer (the post raises).
InitResponses == {"200 session", "200 no session", "http error", "transport error"}

\* Answers to the method request: 200 with a JSON body or a body that is not
\* JSON, no answer, or an HTTP error status whose body is text that is not
\* JSON, bytes that are not text (not valid UTF-8), a JSON object with an
\* object under error, one without the key error, one with a string under
\* error, or JSON that is not an object.
MethodResponses == {"200 json", "200 not json", "transport error",
                    "error not json", "error not text", "error object",
                    "error no key", "error string", "error not object"}

\* initialize_session: whether it returns True.
initialize_session(response) == response = "200 session"

call_method_CatchesAll(response) ==
    IF response = "200 json" THEN "result" ELSE "error"

\* call_method once the session is held: the parsed body, an error dict, or
\* the exception raised in the except branch, where only JSONDecodeError is
\* caught: AttributeError by .get on a value that is not a dict,
\* UnicodeDecodeError by e.response.json() on a body that is not text.
call_method(response) ==
    IF response = "200 json" THEN "result"
    ELSE IF response \in {"error string", "error not object", "error not text"}
    THEN "raised"
    ELSE "error"

NotReturned == "pending"

\* An invocation begins: it posts its first request and awaits the answer.
Begin(op, pc, request) ==
    /\ Len(invocations) < MaxInvocations
    /\ invocations' = Append(invocations, op)
    /\ ipc' = Append(ipc, pc)
    /\ wire' = Append(wire, [by |-> Len(invocations) + 1, request |-> request])
    /\ responses' = Append(responses, <<>>)
    /\ returned' = Append(returned, NotReturned)
    /\ UNCHANGED mcp_session_id
    /\ UNCHANGED notClient

\* call_method finds no session id: it awaits initialize_session, which
\* posts the initialize request.
CallMethodInitializing ==
    /\ mcp_session_id = NoSessionId
    /\ Begin("call_method", "init", "initialize")

\* call_method finds the session id held: it posts the method request.
CallMethodWithSession ==
    /\ mcp_session_id # NoSessionId
    /\ Begin("call_method", "method", "method")

\* initialize_session called on its own, whether a session is held or not.
InitializeSession ==
    /\ Begin("initialize_session", "init", "initialize")

\* The initialize request of invocation i is answered.  A 200 stores the
\* header mcp-session-id, None when it is missing; an error leaves
\* session_id alone.  call_method then posts the method request when
\* initialize_session returned True and returns the error dict when not.
InitializeAnswered ==
    /\ \E i \in 1..Len(ipc), init \in InitResponses :
          /\ ipc[i] = "init"
          /\ responses' = [responses EXCEPT ![i] = Append(@, init)]
          /\ mcp_session_id' = IF init = "200 session" THEN "sid"
                               ELSE IF init = "200 no session" THEN NoSessionId
                               ELSE mcp_session_id
          /\ IF invocations[i] = "call_method" /\ initialize_session(init)
             THEN /\ wire' = Append(wire, [by |-> i, request |-> "method"])
                  /\ ipc' = [ipc EXCEPT ![i] = "method"]
                  /\ UNCHANGED returned
             ELSE /\ ipc' = [ipc EXCEPT ![i] = "done"]
                  /\ returned' = [returned EXCEPT ![i] =
                        IF invocations[i] = "call_method" THEN "error"
                        ELSE IF initialize_session(init) THEN "True" ELSE "False"]
                  /\ UNCHANGED wire
    /\ UNCHANGED invocations
    /\ UNCHANGED notClient

\* The method request of invocation i is answered; call_method returns or
\* raises.
MethodAnswered ==
    /\ \E i \in 1..Len(ipc), response \in MethodResponses :
          /\ ipc[i] = "method"
          /\ responses' = [responses EXCEPT ![i] = Append(@, response)]
          /\ returned' = [returned EXCEPT ![i] = call_method(response)]
          /\ ipc' = [ipc EXCEPT ![i] = "done"]
    /\ UNCHANGED <<mcp_session_id, invocations, wire>>
    /\ UNCHANGED notClient

NextClient ==
    \/ CallMethodInitializing
    \/ CallMethodWithSession
    \/ InitializeSession
    \/ InitializeAnswered
    \/ MethodAnswered

\* The state every part starts in, but for the route requested:
\* event_generator before its first yield; a FastAPISSEClient as __init__
\* leaves it, connect not yet called; an MCPServer as __init__ leaves it.
InitAt(routes) ==
    /\ endpoint \in routes
    /\ gpc = "start"
    /\ counter = 0
    /\ disconnected = FALSE
    /\ polls = 0
    /\ sent = <<>>
    /\ lastFrame = <<>>
    /\ gend = "none"
    /\ sentAtGone = -1
    /\ cpc = "idle"
    /\ running = FALSE
    /\ hasCallback = FALSE
    /\ event_type = NoKind
    /\ received = <<>>
    /\ dispatched = <<>>
    /\ cend = "none"
    /\ attempts = 0
    /\ stopAt = -1
    /\ cpc2 = "idle"
    /\ received2 = <<>>
    /\ dispatched2 = <<>>
    /\ cend2 = "none"
    /\ epc = [c \in Connections |-> "closed"]
    /\ ecounter = [c \in Connections |-> 0]
    /\ esent = [c \in Connections |-> <<>>]
    /\ eend = [c \in Connections |-> "none"]
    /\ egen = [c \in Connections |-> 0]
    /\ execution_history = <<>>
    /\ server_stats = [total_executions |-> 0, successful_executions |-> 0,
                       failed_executions |-> 0]
    /\ lastCall = NoCall
    /\ lastResult = NoResult
    /\ calls = 0
    /\ in_flight = {}
    /\ others = 0
    /\ streamCall = NoCall
    /\ streamed = <<>>
    /\ spc = "idle"
    /\ sessions = <<>>
    /\ sessionReply = NoSessionReply
    /\ creating = {}
    /\ posts = 0
    /\ request_body = NoBody
    /\ reply = NoReply
    /\ mcp_session_id = NoSessionId
    /\ invocations = <<>>
    /\ ipc = <<>>
    /\ wire = <<>>
    /\ responses = <<>>
    /\ returned = <<>>

Init == InitAt({"stream"})

\* One FastAPISSEClient with two threads in connect.
SpecTwoClients ==
    /\ Init
    /\ [][NextTwoClients]_vars

\* One MCPClient whose invocations interleave at their awaits.
SpecClient ==
    /\ Init
    /\ [][NextClient]_vars

\* The broadcast stub serving requests one after the other.
SpecBroadcast ==
    /\ Init
    /\ [][NextBroadcast]_vars

\* _default_handler applied to events of every kind.
SpecHandler ==
    /\ Init
    /\ [][NextHandler]_vars

\* One MCPServer whose execute_tool calls, stream run and session operations
\* interleave.
SpecServer ==
    /\ Init
    /\ [][NextServer]_vars

\* Two slots for /stream connections, each reopened after it closed.
SpecStreams ==
    /\ Init
    /\ [][NextStreams]_vars

\* One connection to any of the SSE routes of main.py.
InitEndpoints == InitAt({"stream", "metrics", "channel", "deepwiki"})

SpecEndpoints ==
    /\ InitEndpoints
    /\ [][NextEndpoints]_vars

\* One /stream connection served by event_generator.
SpecProducer ==
    /\ Init
    /\ [][NextProducer]_vars

\* One connect call of FastAPISSEClient.
SpecConsumer ==
    /\ Init
    /\ [][NextConsumer]_vars

\* ------------------------------------------------------ producer claims

\* C1, as claimed: the kind of the frame of every tick n >= 1 is the first
\* match in the order n % 3 (regular update), n % 4 (sensor), n % 5
\* (heartbeat), n % 8 (notification).
C1_ClaimedOrder ==
    \A i \in 1..Len(sent) :
        LET n == sent[i].n IN
        (n >= 1 /\ sent[i].kind # "error") =>
            sent[i].kind = IF n % 3 = 0 THEN "message"
                           ELSE IF n % 4 = 0 THEN "sensor"
                           ELSE IF n % 5 = 0 THEN "heartbeat"
                           ELSE "notification"

\* C1, amended: the kind of the frame of every tick n >= 1 is the first match
\* in the order n % 3 (regular update), n % 5 (heartbeat), n % 8
\* (notification), n % 4 (sensor): ticks 8 and 16 emit a notification, ticks
\* 20 and 40 a heartbeat.
C1_CodeOrder ==
    \A i \in 1..Len(sent) :
        LET n == sent[i].n
            k == sent[i].kind
        IN (n >= 1 /\ k # "error") =>
            /\ (n % 3 = 0) => k = "message"
            /\ (n % 3 # 0 /\ n % 5 = 0) => k = "heartbeat"
            /\ (n % 3 # 0 /\ n % 5 # 0 /\ n % 8 = 0) => k = "notification"
            /\ (n % 3 # 0 /\ n % 5 # 0 /\ n % 8 # 0) => (k = "sensor" /\ n % 4 = 0)

\* Ticks 8, 20 and 40, where two or three moduli divide n, have been emitted.
C1_Witness ==
    /\ \E i \in 1..Len(sent) : sent[i].n = 8 /\ sent[i].kind = "notification"
    /\ \E i \in 1..Len(sent) : sent[i].n = 20 /\ sent[i].kind = "heartbeat"
    /\ \E i \in 1..Len(sent) : sent[i].n = 40 /\ sent[i].kind = "heartbeat"

\* A pass of the loop with the client connected and no exception.
TickCompleted == gpc = "poll" /\ gpc' = "sleep"

\* C2, as claimed: every tick at which the probe returns false and nothing is
\* raised yields exactly one frame.
C2_ExactlyOneFramePerTick ==
    [][TickCompleted => Len(sent') = Len(sent) + 1]_vars

\* C2, amended: such a tick yields at most one frame: exactly one when 3, 4
\* or 5 divides the tick number, none otherwise.
C2_AtMostOneFramePerTick ==
    [][TickCompleted =>
          Len(sent') = Len(sent) +
              (IF counter' % 3 = 0 \/ counter' % 4 = 0 \/ counter' % 5 = 0
               THEN 1 ELSE 0)]_vars

\* Ticks 1 and 2 were silent, ticks 3 and 4 each yielded a frame.
C2_Witness == gpc = "sleep" /\ counter = 4 /\ Len(sent) = 3

\* The probe returned false on the first four polls and true on the fifth.
FifthPollDisconnected == gpc = "done" /\ gend = "disconnect" /\ polls = 5

\* C3, as claimed: with the probe true on the 5th poll the generator yields
\* exactly 4 data frames and no error frame.
C3_FourFrames ==
    FifthPollDisconnected =>
        /\ Len(sent) = 4
        /\ \A i \in 1..Len(sent) : sent[i].kind # "error"

\* C3, amended: it yields exactly 3 data frames (the connection frame, the
\* regular update of tick 3, the sensor frame of tick 4) and no error frame.
C3_ThreeFrames ==
    FifthPollDisconnected =>
        sent = << [kind |-> "message", n |-> 0],
                  [kind |-> "message", n |-> 3],
                  [kind |-> "sensor", n |-> 4] >>

C3_Witness == FifthPollDisconnected /\ counter = 4

\* C4, as claimed: the counter values of the events after the connection
\* frame are 1, 2, 3, ...
C4_GaplessFromOne ==
    \A i \in 2..Len(sent) : sent[i].n = i - 1

\* C4, amended: the counter values of the events after the connection frame
\* are strictly increasing, but start at 3 and have gaps of up to 3.
C4_IncreasingWithGaps ==
    \A i \in 2..Len(sent) :
        /\ sent[i].n > sent[i - 1].n
        /\ sent[i].n - sent[i - 1].n <= 3
        /\ (i = 2 /\ sent[i].kind # "error") => sent[i].n = 3

\* Events of ticks 3, 4, 5, 6 and 8 were yielded: tick 7 is a gap.
C4_Witness ==
    /\ Len(sent) >= 6
    /\ sent[2].n = 3
    /\ sent[5].n = 6
    /\ sent[6].n = 8

\* ------------------------------------------------------ consumer claims

\* Line i went through the body of the loop (running was true when it came).
Processed(i) ==
    /\ i \in 1..Len(received)
    /\ ~((cpc = "leaving_stopped" \/ cend = "stopped") /\ i = Len(received))

\* A KeyboardInterrupt ended the loop while it worked on the last line
\* received, before or after the handler was called.
Interrupted == cpc = "leaving_interrupted" \/ cend = "interrupted"

\* The dispatches made for line i.
DispatchAt(i) == {j \in 1..Len(dispatched) : dispatched[j].at = i}

\* C5: an `event: k' line followed immediately by a `data: p' line causes
\* exactly one dispatch, of an event of kind k with data p.
C5_KindOfEventLine ==
    \A i \in 2..Len(received) :
        (/\ Processed(i)
         /\ StartsWith(received[i - 1], EventPrefix)
         /\ StartsWith(received[i], DataPrefix)) =>
            /\ Cardinality(DispatchAt(i)) = 1
            /\ \A j \in DispatchAt(i) :
                  /\ dispatched[j].event = DropFirst(received[i - 1], 7)
                  /\ dispatched[j].data = DropFirst(received[i], 6)

\* No `event: ' line is pending at line i: none came since the last `data: '
\* line before i.
NoPendingAt(i) ==
    \A j \in 1..(i - 1) :
        StartsWith(received[j], EventPrefix) =>
            \E m \in (j + 1)..(i - 1) : StartsWith(received[m], DataPrefix)

\* A `data: ' line with no pending `event: ' line causes exactly one
\* dispatch, of kind "message".
MessageWhenNothingPending ==
    \A i \in 1..Len(received) :
        (Processed(i) /\ StartsWith(received[i], DataPrefix) /\ NoPendingAt(i)) =>
            /\ Cardinality(DispatchAt(i)) = 1
            /\ \A j \in DispatchAt(i) : dispatched[j].event = <<"message">>

\* C6: a `data: ' line with no pending `event: ' line causes exactly one
\* dispatch, of kind "message", and every dispatch clears the pending kind
\* (event_type).
C6_PendingKindCleared ==
    /\ MessageWhenNothingPending
    /\ (/\ dispatched # <<>>
        /\ dispatched[Len(dispatched)].at = Len(received)) => event_type = <<>>

\* C7: the lines of the frame main.py yields for (k, p), received in a row,
\* dispatch an event of kind k whose data is p.
C7_RoundTrip ==
    \A k \in WireKinds, p \in WirePayloads :
        LET ls == IterLines(FrameText(k, p)) IN
        \A i \in 1..(Len(received) - Len(ls) + 1) :
            (/\ SubSeq(received, i, i + Len(ls) - 1) = ls
             /\ Processed(i + Len(ls) - 1)) =>
                \E j \in DispatchAt(i + Len(ls) - 2) :
                    /\ dispatched[j].event = <<k>>
                    /\ dispatched[j].data = p

\* The processed `data: ' lines among the first n lines, in order.
RECURSIVE DataLineIdx(_)
DataLineIdx(n) ==
    IF n = 0 THEN <<>>
    ELSE IF Processed(n) /\ StartsWith(received[n], DataPrefix)
         THEN Append(DataLineIdx(n - 1), n)
         ELSE DataLineIdx(n - 1)

\* The dispatched events are the lines idx of received, in that order, each
\* once, with the text after `data: ' as data.
DispatchedAre(idx) ==
    /\ Len(dispatched) = Len(idx)
    /\ \A j \in 1..Len(idx) :
          /\ dispatched[j].at = idx[j]
          /\ dispatched[j].data = DropFirst(received[idx[j]], 6)

\* C8, as claimed: the dispatched events are exactly the `data: ' lines
\* received while running was true, in order of receipt, each once; no other
\* line is dispatched.
C8_DispatchIsDataSubsequence == DispatchedAre(DataLineIdx(Len(received)))

\* C8, amended: the dispatched events are exactly the `data: ' lines
\* received while running was true, in order of receipt, each once, and no
\* other line is dispatched; except that the line the loop was working on
\* when a KeyboardInterrupt ended it may have been left undispatched.
C8_ExceptInterruptedLine ==
    \/ DispatchedAre(DataLineIdx(Len(received)))
    \/ Interrupted /\ DispatchedAre(DataLineIdx(Len(received) - 1))

\* Two data lines were dispatched around an `event: ' line, a blank line or
\* a `data:' line without the space, and a third data line was interrupted
\* before its handler was called.
C8_Witness ==
    /\ cend = "interrupted"
    /\ Len(dispatched) = 2
    /\ Len(received) = 4
    /\ StartsWith(received[4], DataPrefix)
    /\ DispatchAt(4) = {}
    /\ \E i \in 1..3 :
          \/ received[i] = <<"d", "a", "t", "a", ":">> \o EmptyObject
          \/ StartsWith(received[i], EventPrefix)
          \/ received[i] = <<>>

\* The handling of dispatch j failed: the payload is not JSON, or the handler
\* raised an Exception.
Failed(j) == dispatched[j].out \in {"raw", "error"}

\* C9, as claimed: every `data: ' line received after a failed handling is
\* dispatched.
C9_EveryLaterLineDispatched ==
    \A j \in 1..Len(dispatched) :
        Failed(j) =>
            \A i \in (dispatched[j].at + 1)..Len(received) :
                StartsWith(received[i], DataPrefix) => DispatchAt(i) # {}

\* C9, amended: the step in which a handling fails leaves connect in its
\* loop and running as it was, and every `data: ' line received afterwards
\* is dispatched unless the loop ended on it: running was false when it
\* came, or a KeyboardInterrupt was raised while the loop worked on it.
C9_LoopSurvivesFailure ==
    /\ [](\A j \in 1..Len(dispatched) :
            Failed(j) =>
                \A i \in (dispatched[j].at + 1)..Len(received) :
                    (/\ Processed(i)
                     /\ ~(Interrupted /\ i = Len(received))
                     /\ StartsWith(received[i], DataPrefix))
                        => DispatchAt(i) # {})
    /\ [][(\E j \in 1..Len(dispatched) :
              /\ ~Failed(j)
              /\ j <= Len(dispatched')
              /\ dispatched'[j].out \in {"raw", "error"})
              => (cpc' = "loop" /\ running' = running)]_vars

\* A handler exception, then a well-formed data line handled normally, then
\* a data line on which the loop was interrupted before the handler call.
C9_Witness ==
    /\ Interrupted
    /\ Len(dispatched) = 2
    /\ dispatched[1].out = "error"
    /\ Loads(dispatched[2].data).ok
    /\ dispatched[2].out \in {"message", "callback"}
    /\ Len(received) > dispatched[2].at
    /\ StartsWith(received[Len(received)], DataPrefix)

\* C10: a KeyboardInterrupt never leaves connect as an exception.
C10_InterruptNeverPropagates == cpc # "raised"

\* C11: once a transport error was raised (by the GET, the status check or
\* the read), connect has returned with running false after a single
\* connection attempt, and nothing is dispatched or attempted afterwards.
C11_TransportErrorEndsConnect ==
    /\ [](cend = "transport_error"
             => (cpc = "done" /\ ~running /\ attempts = 1))
    /\ [][cend = "transport_error"
             => (dispatched' = dispatched /\ attempts' = attempts
                 /\ received' = received /\ cpc' = cpc)]_vars

\* The read broke after an event had been dispatched.
C11_Witness ==
    /\ cend = "transport_error"
    /\ cpc = "done"
    /\ Len(dispatched) > 0

\* C12: after stop() has run, no line received later is dispatched, and
\* connect has left its loop once the next line has been received.
C12_StopEndsLoop ==
    stopAt >= 0 =>
        /\ \A j \in 1..Len(dispatched) : dispatched[j].at <= stopAt
        /\ Len(received) <= stopAt + 1
        /\ Len(received) = stopAt + 1 => cpc # "loop"

\* C13: a connect leaves its loop through the running check only when
\* stop() was called; the end of the other connect does not end it.
C13_OtherKeepsReading ==
    /\ cend2 = "stopped" => stopAt >= 0
    /\ cend = "stopped" => stopAt >= 0

\* C14: the step in which the probe answers true or the generator is
\* cancelled yields no frame and ends the generator, and no frame follows; no
\* error frame is ever yielded on that way out.
C14_NoFrameAfterCancel ==
    /\ [][gend' \in {"disconnect", "cancelled"}
             => (sent' = sent /\ lastFrame' = lastFrame /\ gpc' = "done")]_vars
    /\ [](gend \in {"disconnect", "cancelled"}
             => \A i \in 1..Len(sent) : sent[i].kind # "error")

\* Cancelled in the sleep that follows tick 3's frame.
C14_Witness ==
    /\ gend = "cancelled"
    /\ gpc = "done"
    /\ counter = 3
    /\ Len(sent) = 2

\* The lines of the last frame yielded.
LastLines == IterLines(lastFrame)

\* C15: a tick that raised an Exception ended the generator normally with
\* exactly one error frame, the last frame of the stream, whose data is a
\* JSON object with the key "error"; an error frame is yielded in no other
\* way.
C15_OneErrorFrameThenEnd ==
    /\ gend = "error" =>
          /\ gpc = "done"
          /\ Len(sent) >= 2
          /\ sent[Len(sent)].kind = "error"
          /\ Cardinality({i \in 1..Len(sent) : sent[i].kind = "error"}) = 1
          /\ LastLines[1] = EventPrefix \o <<"error">>
          /\ StartsWith(LastLines[2], DataPrefix)
          /\ "\"error\"" \in Loads(DropFirst(LastLines[2], 6)).keys
    /\ (\E i \in 1..Len(sent) : sent[i].kind = "error") => gend = "error"

\* Tick 4 raised after the frames of connect and tick 3.
C15_Witness ==
    /\ gend = "error"
    /\ counter = 4
    /\ Len(sent) = 3
    /\ sent[3] = [kind |-> "error", n |-> 4]

\* C16: no generator of main.py is left by an exception raised while a
\* payload is produced.
C16_NoExceptionLeavesGenerator == ~(gpc = "raised" /\ gend = "exception")

\* The generators that poll the disconnect probe.
LoopRoutes == {"stream", "metrics", "channel"}

\* C17: in the three looping generators the probe is polled once in every
\* tick, and answers before the tick's frame is yielded; once the client is
\* gone at most one more frame is yielded, and the next poll ends the
\* generator without a frame.
C17_ProbeOncePerTick ==
    /\ [](endpoint \in LoopRoutes =>
            /\ polls = counter + (IF gend = "disconnect" THEN 1 ELSE 0)
            /\ disconnected => Len(sent) - sentAtGone <= 1)
    /\ [][(endpoint \in LoopRoutes /\ counter' # counter)
             => (gpc = "poll" /\ ~disconnected
                 /\ counter' = counter + 1 /\ polls' = polls + 1)]_vars
    /\ [][(endpoint \in LoopRoutes /\ disconnected /\ gpc = "poll"
           /\ gpc' # gpc)
             => (gpc' = "done" /\ sent' = sent)]_vars

\* metrics_generator: the client went away during tick 2, whose frame was
\* still yielded, and the third poll ended the generator.
C17_Witness ==
    /\ endpoint = "metrics"
    /\ gend = "disconnect"
    /\ polls = 3
    /\ counter = 2
    /\ sentAtGone = 2
    /\ Len(sent) = 3

\* C19: every frame yielded is a `data: ' line with a JSON payload and a
\* blank line, or an `event: ' line, such a data line and a blank line;
\* nothing else, and the text ends with the terminator.
C19_FrameShapes ==
    lastFrame # <<>> =>
        LET n == Len(lastFrame)
            body == IterLines(SubSeq(lastFrame, 1, n - 1))
            IsData(l) == StartsWith(l, DataPrefix) /\ Loads(DropFirst(l, 6)).ok
        IN /\ n >= 2
           /\ lastFrame[n] = NL
           /\ lastFrame[n - 1] = NL
           /\ \/ Len(body) = 1 /\ IsData(body[1])
              \/ /\ Len(body) = 2
                 /\ StartsWith(body[1], EventPrefix)
                 /\ Len(body[1]) > 7
                 /\ IsData(body[2])

\* A frame with an event line has been yielded.
C19_Witness ==
    /\ endpoint = "stream"
    /\ Len(sent) >= 3
    /\ StartsWith(lastFrame, EventPrefix)

\* The frames a connection has yielded when its counter is n and nothing was
\* raised: the connection frame, then the frame of each tick 1..n that has
\* one.
RECURSIVE FramesUpTo(_)
FramesUpTo(n) ==
    IF n = 0 THEN <<[kind |-> "message", n |-> 0]>>
    ELSE IF KindAt(n) = "none" THEN FramesUpTo(n - 1)
    ELSE Append(FramesUpTo(n - 1), [kind |-> KindAt(n), n |-> n])

\* C18: what a /stream connection has yielded is a function of its own
\* counter alone; a step of one connection changes nothing of the other; a
\* connection opened after a disconnect starts with counter 0, its first
\* tick is tick 1.
C18_OwnCounter ==
    /\ [](\A c \in Connections :
            egen[c] > 0 =>
                esent[c] = IF eend[c] = "error"
                           THEN Append(FramesUpTo(ecounter[c] - 1),
                                       [kind |-> "error", n |-> ecounter[c]])
                           ELSE FramesUpTo(ecounter[c]))
    /\ [][\A c \in Connections : \A d \in Connections \ {c} :
            (ecounter'[c] # ecounter[c] \/ epc'[c] # epc[c] \/ egen'[c] # egen[c])
                => (ecounter'[d] = ecounter[d] /\ esent'[d] = esent[d]
                    /\ epc'[d] = epc[d] /\ eend'[d] = eend[d])]_vars
    /\ [][\A c \in Connections :
            egen'[c] # egen[c] => (ecounter'[c] = 0 /\ Len(esent'[c]) = 1)]_vars

\* Connection 1 was reopened after a disconnect and is at tick 3 again, while
\* connection 2 is at tick 5.
C18_Witness ==
    /\ egen[1] = 2
    /\ ecounter[1] = 3
    /\ Len(esent[1]) = 2
    /\ egen[2] = 1
    /\ ecounter[2] = 5
    /\ Len(esent[2]) = 4

\* C20: a call with an unregistered name returns status error with the text
\* Tool '<name>' not found, nothing is raised, and a call with a registered
\* name and its required parameter returns success whatever came before.
C20_UnknownToolIsAnError ==
    /\ [](calls > Cardinality(in_flight) =>
            /\ lastResult.status \in {"success", "error"}
            /\ lastCall.tool_name \notin {"analyze_repository", "resolve_library"}
                  => /\ lastResult.status = "error"
                     /\ lastResult.error =
                            <<"Tool '", lastCall.tool_name, "' not found">>)
    /\ [][(/\ Cardinality(in_flight') < Cardinality(in_flight)
           /\ \/ /\ lastCall'.tool_name = "analyze_repository"
                 /\ "repository" \in lastCall'.parameters
              \/ /\ lastCall'.tool_name = "resolve_library"
                 /\ "library_name" \in lastCall'.parameters)
             => lastResult'.status = "success"]_vars

\* An unregistered name was refused, and the next call succeeded.
C20_Witness ==
    /\ Len(execution_history) = 2
    /\ others = 0
    /\ in_flight = {}
    /\ execution_history[1].tool_name = "does_not_exist"
    /\ execution_history[1].status = "failed"
    /\ execution_history[2].status = "completed"
    /\ lastResult.status = "success"

\* The case the fixed order heartbeat, notification, sensor, metrics key,
\* generic message picks for a kind and the keys of a payload.
FirstCase(kind, keys) ==
    IF kind = <<"heartbeat">> THEN "heartbeat"
    ELSE IF kind = <<"notification">> THEN "notification"
    ELSE IF kind = <<"sensor">> THEN "sensor"
    ELSE IF "\"metrics\"" \in keys THEN "metrics"
    ELSE "message"

\* C21, as claimed: every event is rendered, by the first matching case when
\* its payload is valid JSON and as raw text when it is not.
C21_AlwaysRendered ==
    \A j \in 1..Len(dispatched) :
        LET d == dispatched[j] IN
        d.at = 0 =>
            d.out = IF Loads(d.data).ok
                    THEN FirstCase(d.event, Loads(d.data).keys) ELSE "raw"

\* C21, amended: raw text for a payload that is not JSON; for a JSON object
\* the first matching case, which raises instead of printing when the value
\* it reads under sensor_data or metrics is not an object, or when the level
\* of a notification is an object or an array (neither can be hashed for the
\* icon lookup); for valid JSON that is not an object (a number, a string,
\* null, a boolean, an array) the handler raises and prints nothing.
C21_FirstCaseForObjects ==
    \A j \in 1..Len(dispatched) :
        LET d == dispatched[j]
            data == Loads(d.data)
            case == FirstCase(d.event, data.keys)
            broken == \/ case = "notification"
                         /\ "\"level\"" \in data.dicts \union data.lists
                      \/ case = "sensor" /\ "\"sensor_data\"" \in data.keys \ data.dicts
                      \/ case = "metrics" /\ "\"metrics\"" \notin data.dicts
        IN d.at = 0 =>
            /\ ~data.ok => d.out = "raw"
            /\ (data.ok /\ data.type # "dict") => d.out = "error"
            /\ (data.ok /\ data.type = "dict")
                  => d.out = IF broken THEN "error" ELSE case

\* A heartbeat whose payload has a metrics key was rendered as a heartbeat,
\* and a notification whose level is an array raised.
C21_Witness ==
    /\ Len(dispatched) = 2
    /\ dispatched[1].at = 0
    /\ dispatched[1].event = <<"heartbeat">>
    /\ "\"metrics\"" \in Loads(dispatched[1].data).keys
    /\ dispatched[1].out = "heartbeat"
    /\ dispatched[2].event = <<"notification">>
    /\ dispatched[2].data = Dumps(<<"\"level\"">>, EmptyArray)
    /\ dispatched[2].out = "error"

\* C22: the acknowledgement carries the message of the body unchanged, the
\* empty string when the body has none, a timestamp made by the server, and
\* the sender "API" whatever the body says.
C22_BroadcastEchoesMessage ==
    posts > 0 =>
        /\ reply.data.message = (IF request_body.message = Absent THEN ""
                                ELSE request_body.message)
        /\ reply.data.timestamp \in ServerTimes
        /\ reply.timestamp \in ServerTimes
        /\ reply.data.sender = "API"
        /\ reply.data.type = "broadcast"
        /\ reply.status = "Message queued for broadcast"

\* A body with a message, a timestamp and a sender of its own was served.
C22_Witness ==
    /\ posts > 0
    /\ request_body.message = "hello"
    /\ request_body.timestamp = "test_script"
    /\ request_body.sender = "test_script"
    /\ reply.data.message = "hello"

\* C23: in event_generator, metrics_generator and channel_generator the
\* first step is the yield of the connection frame, a `data: ' frame: it is
\* taken whether or not the client is still there, no poll and no sleep comes
\* before it, and it stays the first frame.
C23_ConnectionFrameFirst ==
    /\ [](endpoint \in LoopRoutes =>
            /\ gpc = "start" => (polls = 0 /\ sent = <<>>
                                 /\ ENABLED (YieldConnected \/ PlainYieldConnected))
            /\ gpc # "start" => (/\ Len(sent) >= 1
                                 /\ sent[1] = [kind |-> "message", n |-> 0]))
    /\ [][(endpoint \in LoopRoutes /\ gpc = "start" /\ gpc' # gpc)
             => (/\ gpc' = "poll"
                 /\ polls' = 0
                 /\ Len(sent') = 1
                 /\ StartsWith(lastFrame', DataPrefix))]_vars

\* The client of a channel stream went away before the generator ran; the
\* connection frame was yielded all the same, before the first poll.
C23_Witness ==
    /\ endpoint = "channel"
    /\ disconnected
    /\ sentAtGone = 0
    /\ gpc = "poll"
    /\ polls = 0
    /\ Len(sent) = 1

\* The events of the last stream run that have a given name.
StreamedAt(event) == {i \in 1..Len(streamed) : streamed[i].event = event}

\* C24: a run that yielded validation_success yields no execution_error for
\* a missing required parameter.
C24_ValidatedMeansValid ==
    StreamedAt("validation_success") # {} =>
        \A j \in StreamedAt("execution_error") :
            streamed[j].error[1] # "Required parameter '"

\* C27: when every execute_tool call made has returned, the three counters
\* and the history agree with the number of calls and no record is left
\* running; while calls are in flight the history has one record per call,
\* each counter lags by the calls that have not reached its increment, and
\* the running records are those of the calls that have not updated theirs;
\* a step that is not a step of an execute_tool call (a step of a stream run
\* among them) changes neither the counters nor the history.
C27_CountersMatchHistory ==
    /\ [](LET At(pos) == {c.i : c \in {d \in in_flight : d.at = pos}}
              With(status) == {i \in 1..Len(execution_history) :
                                  execution_history[i].status = status}
          IN /\ in_flight = {} =>
                   /\ server_stats.total_executions
                        = server_stats.successful_executions
                          + server_stats.failed_executions
                   /\ server_stats.total_executions = Len(execution_history)
                   /\ \A i \in 1..Len(execution_history) :
                         execution_history[i].status \in {"completed", "failed"}
             /\ Len(execution_history) = calls
             /\ server_stats.total_executions
                  = calls - Cardinality(At("appended"))
             /\ server_stats.successful_executions
                  = Cardinality(With("completed") \ At("updated"))
             /\ server_stats.failed_executions
                  = Cardinality(With("failed") \ At("updated"))
             /\ With("running") = At("appended") \cup At("counted"))
    /\ [][(calls' = calls /\ in_flight' = in_flight)
             => (/\ execution_history' = execution_history
                 /\ server_stats' = server_stats)]_vars

\* Two calls that overlapped, both returned: the first, which failed,
\* returned after the second, which succeeded.
C27_Witness ==
    /\ calls = 2
    /\ in_flight = {}
    /\ execution_history[1].status = "failed"
    /\ execution_history[2].status = "completed"
    /\ lastResult.status = "error"
    /\ server_stats = [total_executions |-> 2, successful_executions |-> 1,
                       failed_executions |-> 1]

\* C28: a stream run consumed to its end starts with execution_start and
\* ends with its only execution_complete, whose status is success exactly
\* after an execution_result and error exactly after an execution_error; a
\* run has never both a result and an error.
C28_StreamStartsAndCompletes ==
    /\ streamed # <<>> =>
          /\ streamed[1].event = "execution_start"
          /\ StreamedAt("execution_start") = {1}
          /\ StreamedAt("execution_result") = {} \/ StreamedAt("execution_error") = {}
    /\ spc = "done" =>
          LET n == Len(streamed) IN
          /\ n >= 3
          /\ StreamedAt("execution_complete") = {n}
          /\ streamed[n].status \in {"success", "error"}
          /\ streamed[n].status = "success" <=> streamed[n - 1].event = "execution_result"
          /\ streamed[n].status = "error" <=> streamed[n - 1].event = "execution_error"

\* A run for a registered tool without its required parameter: validation,
\* progress, then the error and the completion with status error.
C28_Witness ==
    /\ spc = "done"
    /\ Len(streamed) = 5
    /\ streamed[2].event = "validation_success"
    /\ streamed[4].event = "execution_error"
    /\ streamed[5] = StreamEvent("execution_complete", "error", NoError)

\* C29: a session, once created, is never changed or removed; its executions
\* stay empty and its status active; create_session with an id that exists
\* returns the error and leaves the map as it is.
C29_SessionsWriteOnce ==
    /\ [](\A id \in DOMAIN sessions :
            sessions[id].executions = <<>> /\ sessions[id].status = "active")
    /\ [][\A id \in DOMAIN sessions :
            id \in DOMAIN sessions' /\ sessions'[id] = sessions[id]]_vars
    /\ [][(/\ sessionReply'.op = "create"
           /\ sessionReply'.n # sessionReply.n
           /\ sessionReply'.session_id \in DOMAIN sessions)
             => (sessionReply'.kind = "already exists" /\ sessions' = sessions)]_vars

\* C25: an invocation sends at most one initialize and at most one method
\* request, the method request only with a session, none after a failed
\* initialization, reuses a session that is held, and returns every failure
\* as an error dict: it never raises.
C25_NoRetryNoRaise ==
    \A i \in 1..Len(invocations) :
        invocations[i] = "call_method" =>
            LET posted(request) == {k \in 1..Len(wire) :
                                       wire[k] = [by |-> i, request |-> request]}
            IN /\ Cardinality(posted("initialize")) <= 1
               /\ Cardinality(posted("method")) <= 1
               /\ (posted("initialize") # {} /\ posted("method") # {})
                     => responses[i][1] = "200 session"
               /\ (posted("initialize") # {} /\ Len(responses[i]) >= 1
                   /\ responses[i][1] # "200 session")
                     => (posted("method") = {} /\ returned[i] = "error")
               /\ returned[i] # "raised"

\* C26, as claimed: a deepwiki_generator that has ended has yielded the
\* start frame, one frame of type analysis or error, and the frame of type
\* complete.
C26_AlwaysThreeFrames ==
    (endpoint = "deepwiki" /\ gpc = "done") =>
        /\ Len(sent) = 3
        /\ sent[1].type = "start"
        /\ sent[2].type \in {"analysis", "error"}
        /\ sent[3].type = "complete"

\* C26, amended: the frames of deepwiki_generator are always a prefix of
\* start, analysis or error, complete; the second frame is of type error
\* exactly when the result has the key error or the call raised an Exception;
\* a generator that ended without being cancelled or closed has yielded all
\* three, and one that was cancelled or closed has yielded one or two of them
\* and no complete frame.  Until the generator is done a step is enabled.
C26_StartOutcomeComplete ==
    /\ [](endpoint = "deepwiki" =>
            /\ gpc \in {"start", "call", "complete", "done"}
            /\ gpc # "done" => ENABLED (DeepwikiStart \/ DeepwikiOutcome \/ DeepwikiComplete)
            /\ gpc = "start" => Len(sent) = 0
            /\ gpc = "call" => Len(sent) = 1
            /\ gpc = "complete" => Len(sent) = 2
            /\ (gpc = "done" /\ gend # "cancelled") => Len(sent) = 3
            /\ (gpc = "done" /\ gend = "cancelled") => Len(sent) \in {1, 2}
            /\ Len(sent) >= 1 => sent[1].type = "start"
            /\ Len(sent) >= 2 => sent[2].type \in {"analysis", "error"}
            /\ Len(sent) >= 3 => sent[3].type = "complete"
            /\ Len(sent) >= 1 => StartsWith(lastFrame, DataPrefix))
    /\ [][(endpoint = "deepwiki" /\ gpc = "call" /\ gpc' = "complete")
            => (/\ Len(sent') = 2
                /\ sent'[2].type = "error" <=> gend' \in {"error_result", "raised"})]_vars

\* The generator was closed after the error frame: start, error and no
\* complete frame.
C26_Witness ==
    /\ endpoint = "deepwiki"
    /\ gpc = "done"
    /\ gend = "cancelled"
    /\ Len(sent) = 2
    /\ sent[1].type = "start"
    /\ sent[2].type = "error"

\* The ticks of event_generator that yielded a frame.
FrameTicks == {sent[i].n : i \in 2..Len(sent)}

\* C30: in event_generator any 3 consecutive ticks contain a tick that
\* yields a frame, so there are never more than 2 silent ticks in a row and
\* the latest frame is at most 2 ticks behind the counter.
C30_NoThreeSilentTicks ==
    (endpoint = "stream" /\ gpc # "start") =>
        /\ \A k \in 1..(counter - 2) : FrameTicks \cap (k..(k + 2)) # {}
        /\ counter - sent[Len(sent)].n <= 2

\* Ticks 13 and 14 were silent, between the frames of ticks 12 and 15.
C30_Witness ==
    /\ endpoint = "stream"
    /\ counter = 15
    /\ ~disconnected
    /\ {12, 15} \subseteq FrameTicks
    /\ FrameTicks \cap {13, 14} = {}

====
